---- MODULE Spec2Model ----
(***************************************************************************)
(* toproxypdf (src/src/toproxypdf/__main__.py): read a folder of images,   *)
(* drop the excluded, non-file and undecodable entries, resize the rest,   *)
(* paste them nine to a page on white canvases and save the pages as one   *)
(* document.                                                               *)
(*                                                                         *)
(* Strings are sequences of one-character strings, so that lower(),        *)
(* startswith(), endswith() and sorted() are computed and not assumed.     *)
(* Python's float arithmetic on dpi is modelled by the integer arithmetic  *)
(* it equals for a positive integer dpi: int(2.5 * dpi) is (5 * dpi) \div 2*)
(* and round() rounds a half to the even neighbour.                        *)
(***************************************************************************)
EXTENDS Integers, Sequences, FiniteSets

VARIABLES
    pc,              \* position in the __main__ block
    argv,            \* the command line as argparse parsed it
    outKind,         \* what the filesystem holds at the resolved output path
    folderIsDir,     \* whether the folder argument is a directory
    arguments,       \* the dict parse_arguments returns
    folder,          \* the directory as os.listdir found it: name -> entry
    listed,          \* os.listdir has been called
    listing,         \* sorted(os.listdir(folder))
    idx,             \* position of list_files' loop in listing (1-based)
    opened,          \* names list_files has handed to Image.open
    allfiles,        \* list_files' accepted, resized images
    excluded_files,  \* list_files' (name, reason) pairs
    backgrounds,     \* generate_images' page canvases
    xcords,          \* generate_images' column x-coordinates
    ycords,          \* generate_images' row y-coordinates
    i,               \* position of generate_images' paste loop (0-based)
    written,         \* the output document exists at the output path
    error            \* the exception that ended the run ("" when none)

vars == <<pc, argv, outKind, folderIsDir, arguments, folder, listed, listing,
          idx, opened, allfiles, excluded_files, backgrounds, xcords, ycords,
          i, written, error>>

---------------------------------------------------------------------------
(* Bounds of the model.                                                    *)

\* Largest number of entries of the input folder (pipeline specification).
MaxEntries == 2
\* Largest dpi of a whole run (pipeline specification).
MaxRunDpi == 3
\* Largest dpi handed to generate_images (layout specification).
MaxDpi == 400
\* Largest number of accepted images handed to generate_images.
MaxImages == 20

---------------------------------------------------------------------------
(* Strings.                                                                *)

\* Code point of a character, the order sorted() compares names by.
Ord(c) ==
    CASE c = "A" -> 65
      [] c = "B" -> 66
      [] c = "a" -> 97
      [] c = "b" -> 98

\* str.lower() on one character.
LowerChar(c) ==
    CASE c = "A" -> "a"
      [] c = "B" -> "b"
      [] OTHER   -> c

\* str.lower()
Lower(s) == [k \in 1..Len(s) |-> LowerChar(s[k])]

\* s.startswith(p)
StartsWith(s, p) ==
    /\ Len(p) <= Len(s)
    /\ \A k \in 1..Len(p) : s[k] = p[k]

\* s.endswith(p)
EndsWith(s, p) ==
    /\ Len(p) <= Len(s)
    /\ \A k \in 1..Len(p) : s[Len(s) - Len(p) + k] = p[k]

\* s < t for Python strings: lexicographic by code point.
StrLess(s, t) ==
    \E k \in 1..(Len(s) + 1) :
        /\ k <= Len(t)
        /\ \A j \in 1..(k - 1) : s[j] = t[j]
        /\ (k = Len(s) + 1 \/ Ord(s[k]) < Ord(t[k]))

RECURSIVE Sorted(_)
\* sorted(S) for a set of distinct names
Sorted(S) ==
    IF S = {} THEN <<>>
    ELSE LET m == CHOOSE x \in S : \A y \in S \ {x} : StrLess(x, y)
         IN  <<m>> \o Sorted(S \ {m})

---------------------------------------------------------------------------
(* The inputs of a run.                                                    *)

DotPdf == <<".", "p", "d", "f">>
DefaultOutput == <<"o", "u", "t", "p", "u", "t">> \o DotPdf

\* -o/--output: absent (<<>>, Python's None) or <<name>>.
OutputArgs == {<<>>, << <<"o">> >>, << <<"o">> \o DotPdf >>}

\* -e/--exclude: the list of prefixes as typed.
ExcludeArgs ==
    { <<>>,
      << <<"a">> >>,
      << <<"A">> >>,
      << <<"a", "b">> >>,
      << <<"A", "B">> >>,
      << <<"b">>, <<"a", "B">> >>,
      << <<>> >> }

\* Names a directory entry may have.
Names ==
    { <<"A">>, <<"a", "b">>, <<"A", "B">>, <<"b">>, <<"B", "a">>,
      <<"a", "B", "a">> }

\* Pixel sizes of the image files on disk.
Sizes == { <<100, 100>>, <<3, 2>> }

\* What a directory entry is: a subdirectory, a file Image.open or verify
\* rejects, or a file that decodes to an image of some size.
Kinds ==
    { [type |-> "dir", size |-> <<0, 0>>],
      [type |-> "corrupt", size |-> <<0, 0>>] }
    \cup { [type |-> "image", size |-> s] : s \in Sizes }

\* The directories os.listdir may find.
Folders ==
    UNION { [S -> Kinds] : S \in { T \in SUBSET Names : Cardinality(T) <= MaxEntries } }

NoArguments == [output |-> <<>>, excluded |-> <<>>, dpi |-> 0]

---------------------------------------------------------------------------
(* parse_arguments                                                         *)

\* The output path: output.pdf, or the given name with .pdf appended when
\* it does not end with it.
ResolveOutput(output) ==
    IF output = <<>> THEN DefaultOutput
    ELSE IF EndsWith(output[1], DotPdf) THEN output[1]
    ELSE output[1] \o DotPdf

\* path.isfile(o): true of a regular file only.
IsFile(kind) == kind = "file"

ParseArguments ==
    /\ pc = "parse"
    /\ IF IsFile(outKind)
       THEN /\ pc' = "failed"
            /\ error' = "FileExistsError"
            /\ UNCHANGED arguments
       ELSE IF ~folderIsDir
       THEN /\ pc' = "failed"
            /\ error' = "FileNotFoundError"
            /\ UNCHANGED arguments
       ELSE /\ pc' = "list"
            /\ arguments' = [output   |-> ResolveOutput(argv.output),
                             excluded |-> argv.excluded,
                             dpi      |-> argv.dpi]
            /\ UNCHANGED error
    /\ UNCHANGED <<argv, outKind, folderIsDir, folder, listed, listing, idx,
                   opened, allfiles, excluded_files, backgrounds, xcords,
                   ycords, i, written>>

---------------------------------------------------------------------------
(* list_files                                                              *)

\* any(files.lower().startswith(i) for i in arguments['excluded'])
IsExcluded(files, excluded) ==
    \E k \in 1..Len(excluded) : StartsWith(Lower(files), excluded[k])

\* Mutant of TargetSize: the half pixel rounded up instead of cut off.
TargetSizeRoundedUp(dpi) == << (5 * dpi + 1) \div 2, (7 * dpi + 1) \div 2 >>

\* (int(2.5 * dpi), int(3.5 * dpi))
TargetSize(dpi) == << (5 * dpi) \div 2, (7 * dpi) \div 2 >>

\* img.resize(size): a new image of that size whatever the source's size.
\* file names the entry it was decoded from.
Resize(files, img, size) == [file |-> files, src |-> img.size, size |-> size]

\* iterable = sorted(os.listdir(arguments['folder']))
ListDir ==
    /\ pc = "list"
    /\ \E f \in Folders :
        /\ folder' = f
        /\ listing' = Sorted(DOMAIN f)
    /\ listed' = TRUE
    /\ idx' = 1
    /\ allfiles' = <<>>
    /\ excluded_files' = <<>>
    /\ pc' = "loop"
    /\ UNCHANGED <<argv, outKind, folderIsDir, arguments, opened, backgrounds,
                   xcords, ycords, i, written, error>>

\* Mutant of ListFilesStep: the excluded branch lacks its continue, so an
\* excluded entry is recorded and then examined like any other.
ListFilesStepNoContinue ==
    /\ pc = "loop"
    /\ idx <= Len(listing)
    /\ LET files == listing[idx]
           entry == folder[files]
           noted == IF IsExcluded(files, arguments.excluded)
                    THEN Append(excluded_files, <<files, "is in excluded list">>)
                    ELSE excluded_files
       IN  IF entry.type = "dir"
           THEN /\ excluded_files' = Append(noted, <<files, "is not a file">>)
                /\ UNCHANGED <<allfiles, opened>>
           ELSE IF entry.type = "corrupt"
           THEN /\ opened' = opened \cup {files}
                /\ excluded_files' =
                       Append(noted, <<files, "is not a valid image">>)
                /\ UNCHANGED allfiles
           ELSE /\ opened' = opened \cup {files}
                /\ allfiles' =
                       Append(allfiles,
                              Resize(files, entry, TargetSize(arguments.dpi)))
                /\ excluded_files' = noted
    /\ idx' = idx + 1
    /\ UNCHANGED <<pc, argv, outKind, folderIsDir, arguments, folder, listed,
                   listing, backgrounds, xcords, ycords, i, written, error>>

\* One iteration of the loop over the sorted listing.
ListFilesStep ==
    /\ pc = "loop"
    /\ idx <= Len(listing)
    /\ LET files == listing[idx]
           entry == folder[files]
       IN  IF IsExcluded(files, arguments.excluded)
           THEN /\ excluded_files' =
                       Append(excluded_files, <<files, "is in excluded list">>)
                /\ UNCHANGED <<allfiles, opened>>
           ELSE IF entry.type = "dir"
           THEN /\ excluded_files' =
                       Append(excluded_files, <<files, "is not a file">>)
                /\ UNCHANGED <<allfiles, opened>>
           ELSE IF entry.type = "corrupt"
           THEN /\ opened' = opened \cup {files}
                /\ excluded_files' =
                       Append(excluded_files, <<files, "is not a valid image">>)
                /\ UNCHANGED allfiles
           ELSE /\ opened' = opened \cup {files}
                /\ allfiles' =
                       Append(allfiles,
                              Resize(files, entry, TargetSize(arguments.dpi)))
                /\ UNCHANGED excluded_files
    /\ idx' = idx + 1
    /\ UNCHANGED <<pc, argv, outKind, folderIsDir, arguments, folder, listed,
                   listing, backgrounds, xcords, ycords, i, written, error>>

\* The loop is over: the rejections are printed and allfiles returned.
ListFilesReturn ==
    /\ pc = "loop"
    /\ idx > Len(listing)
    /\ pc' = "generate"
    /\ UNCHANGED <<argv, outKind, folderIsDir, arguments, folder, listed,
                   listing, idx, opened, allfiles, excluded_files, backgrounds,
                   xcords, ycords, i, written, error>>

---------------------------------------------------------------------------
(* generate_images                                                         *)

\* Mutant of PageCount: the division rounds down.
PageCountFloor(n) == n \div 9

\* range(-(-len(fileslist) // 9)): the number of pages, rounded up.
PageCount(n) == -((-n) \div 9)

\* Mutant of PageSize: a page 8 units wide instead of 8.5.
PageSizeNarrow(dpi) == << 8 * dpi, 11 * dpi >>

\* (int(8.5 * dpi), int(11 * dpi))
PageSize(dpi) == << (17 * dpi) \div 2, 11 * dpi >>

\* round(num / den) for num >= 0, den > 0: a half goes to the even neighbour.
Round(num, den) ==
    LET q == num \div den
        r == num % den
    IN  IF 2 * r < den THEN q
        ELSE IF 2 * r > den THEN q + 1
        ELSE IF q % 2 = 0 THEN q
        ELSE q + 1

\* Mutant of Xcords: the gutters left out.
XcordsNoGutter(dpi) == << dpi \div 2, 3 * dpi, (11 * dpi) \div 2 >>

\* Mutant of Xcords: the two gutters exchanged.
XcordsGuttersSwapped(dpi) ==
    << dpi \div 2,
       3 * dpi + Round(dpi, 50),
       (11 * dpi) \div 2 + Round(dpi, 100) >>

\* [int(.5 * dpi), int(3 * dpi + round(.01 * dpi)),
\*  int(5.5 * dpi + round(.02 * dpi))]
Xcords(dpi) ==
    << dpi \div 2,
       3 * dpi + Round(dpi, 100),
       (11 * dpi) \div 2 + Round(dpi, 50) >>

\* [int(.25 * dpi), int(3.75 * dpi + round(.01 * dpi)),
\*  int(7.25 * dpi + round(.02 * dpi))]
Ycords(dpi) ==
    << dpi \div 4,
       (15 * dpi) \div 4 + Round(dpi, 100),
       (29 * dpi) \div 4 + Round(dpi, 50) >>

\* The index into xcords: i % 3
ColOf(n) == n % 3

\* Mutant of RowOf: the row taken like the column.
RowOfLikeColumn(n) == n % 3

\* The index into ycords: (i % 9) // 3
RowOf(n) == (n % 9) \div 3

\* The index into backgrounds: i // 9
PageOf(n) == n \div 9

\* The white pages and the coordinate tables, before the paste loop.
GenerateBackgrounds ==
    /\ pc = "generate"
    /\ backgrounds' =
           [p \in 1..PageCount(Len(allfiles)) |->
               [size |-> PageSize(arguments.dpi), pastes |-> <<>>]]
    /\ xcords' = Xcords(arguments.dpi)
    /\ ycords' = Ycords(arguments.dpi)
    /\ i' = 0
    /\ pc' = "paste"
    /\ UNCHANGED <<argv, outKind, folderIsDir, arguments, folder, listed,
                   listing, idx, opened, allfiles, excluded_files, written,
                   error>>

\* One iteration of the paste loop: backgrounds[i // 9].paste(fileslist[i],
\* (x, y)). An index past the last page raises IndexError.
Paste ==
    /\ pc = "paste"
    /\ i < Len(allfiles)
    /\ LET x == xcords[ColOf(i) + 1]
           y == ycords[RowOf(i) + 1]
           p == PageOf(i) + 1
       IN  IF p \in 1..Len(backgrounds)
           THEN /\ backgrounds' =
                       [backgrounds EXCEPT ![p].pastes =
                           Append(@, [index |-> i,
                                      image |-> allfiles[i + 1],
                                      x     |-> x,
                                      y     |-> y])]
                /\ i' = i + 1
                /\ UNCHANGED <<pc, error>>
           ELSE /\ pc' = "failed"
                /\ error' = "IndexError"
                /\ UNCHANGED <<backgrounds, i>>
    /\ UNCHANGED <<argv, outKind, folderIsDir, arguments, folder, listed,
                   listing, idx, opened, allfiles, excluded_files, xcords,
                   ycords, written>>

\* The paste loop is over: backgrounds is returned.
GenerateReturn ==
    /\ pc = "paste"
    /\ i >= Len(allfiles)
    /\ pc' = "save"
    /\ UNCHANGED <<argv, outKind, folderIsDir, arguments, folder, listed,
                   listing, idx, opened, allfiles, excluded_files, backgrounds,
                   xcords, ycords, i, written, error>>

---------------------------------------------------------------------------
(* __main__                                                                *)

\* Mutant of Save: an empty list of pages is skipped instead of indexed.
SaveSkipsEmpty ==
    /\ pc = "save"
    /\ IF Len(backgrounds) = 0
       THEN /\ pc' = "saved"
            /\ UNCHANGED <<written, error>>
       ELSE IF outKind = "dir"
       THEN /\ pc' = "failed"
            /\ error' = "IsADirectoryError"
            /\ UNCHANGED written
       ELSE /\ pc' = "saved"
            /\ written' = TRUE
            /\ UNCHANGED error
    /\ UNCHANGED <<argv, outKind, folderIsDir, arguments, folder, listed,
                   listing, idx, opened, allfiles, excluded_files, backgrounds,
                   xcords, ycords, i>>

\* generated_images[0].save(arguments['output'], ...): indexing an empty
\* list raises IndexError before save is called; a directory at the output
\* path cannot be opened for writing.
Save ==
    /\ pc = "save"
    /\ IF Len(backgrounds) = 0
       THEN /\ pc' = "failed"
            /\ error' = "IndexError"
            /\ UNCHANGED written
       ELSE IF outKind = "dir"
       THEN /\ pc' = "failed"
            /\ error' = "IsADirectoryError"
            /\ UNCHANGED written
       ELSE /\ pc' = "saved"
            /\ written' = TRUE
            /\ UNCHANGED error
    /\ UNCHANGED <<argv, outKind, folderIsDir, arguments, folder, listed,
                   listing, idx, opened, allfiles, excluded_files, backgrounds,
                   xcords, ycords, i>>

\* quit(0)
Quit ==
    /\ pc = "saved"
    /\ pc' = "exit0"
    /\ UNCHANGED <<argv, outKind, folderIsDir, arguments, folder, listed,
                   listing, idx, opened, allfiles, excluded_files, backgrounds,
                   xcords, ycords, i, written, error>>

---------------------------------------------------------------------------
(* Specifications.                                                         *)

\* A whole run, from the command line on.
Init ==
    /\ pc = "parse"
    /\ argv \in [output : OutputArgs, excluded : ExcludeArgs, dpi : 1..MaxRunDpi]
    /\ outKind \in {"absent", "file", "dir"}
    /\ folderIsDir \in BOOLEAN
    /\ arguments = NoArguments
    /\ folder = << >>
    /\ listed = FALSE
    /\ listing = << >>
    /\ idx = 1
    /\ opened = {}
    /\ allfiles = << >>
    /\ excluded_files = << >>
    /\ backgrounds = << >>
    /\ xcords = << >>
    /\ ycords = << >>
    /\ i = 0
    /\ written = FALSE
    /\ error = ""

Next ==
    \/ ParseArguments
    \/ ListDir
    \/ ListFilesStep
    \/ ListFilesReturn
    \/ GenerateBackgrounds
    \/ Paste
    \/ GenerateReturn
    \/ Save
    \/ Quit

Spec == Init /\ [][Next]_vars

\* The k-th name, in sorted order, of a folder of valid images: three
\* letters, counting in the alphabet's code point order.
LayoutName(k) ==
    LET letter == <<"A", "B", "a", "b">>
    IN  << letter[((k \div 16) % 4) + 1],
           letter[((k \div 4) % 4) + 1],
           letter[(k % 4) + 1] >>

\* generate_images alone, entered with what list_files returns for a folder
\* of n valid images and no exclusions.
InitLayout ==
    \E d \in 1..MaxDpi, n \in 0..MaxImages :
        /\ pc = "generate"
        /\ argv = [output |-> << >>, excluded |-> << >>, dpi |-> d]
        /\ outKind = "absent"
        /\ folderIsDir = TRUE
        /\ arguments = [output |-> DefaultOutput, excluded |-> << >>, dpi |-> d]
        /\ folder = [f \in {LayoutName(k) : k \in 1..n} |->
                        [type |-> "image", size |-> <<100, 100>>]]
        /\ listed = TRUE
        /\ listing = [k \in 1..n |-> LayoutName(k)]
        /\ idx = n + 1
        /\ opened = {LayoutName(k) : k \in 1..n}
        /\ allfiles = [k \in 1..n |->
                          Resize(LayoutName(k), folder[LayoutName(k)],
                                 TargetSize(d))]
        /\ excluded_files = << >>
        /\ backgrounds = << >>
        /\ xcords = << >>
        /\ ycords = << >>
        /\ i = 0
        /\ written = FALSE
        /\ error = ""

NextLayout ==
    \/ GenerateBackgrounds
    \/ Paste
    \/ GenerateReturn

SpecLayout == InitLayout /\ [][NextLayout]_vars

---------------------------------------------------------------------------
(* Properties.                                                             *)

\* How often x occurs in a sequence.
Count(seq, x) == Cardinality({k \in DOMAIN seq : seq[k] = x})

\* The entry each accepted image was decoded from, in order.
AcceptedNames == [k \in DOMAIN allfiles |-> allfiles[k].file]

\* The entry of each rejection, in order.
RejectedNames == [k \in DOMAIN excluded_files |-> excluded_files[k][1]]

\* list_files has returned.
AfterListFiles ==
    \/ pc \in {"generate", "paste", "save", "saved", "exit0"}
    \/ pc = "failed" /\ listed

\* generate_images has created its pages.
AfterBackgrounds == pc \in {"paste", "save"}

\* Every (page, position) at which an image has been pasted.
Slots ==
    UNION { { <<p, k>> : k \in DOMAIN backgrounds[p].pastes } :
            p \in DOMAIN backgrounds }

PasteAt(slot) == backgrounds[slot[1]].pastes[slot[2]]

\* C1: while and after list_files runs, every directory entry the loop has
\* passed appears exactly once in exactly one of allfiles and
\* excluded_files, no entry it has not reached appears in either, the
\* listing holds every directory entry once, and no run ends inside the
\* loop: once list_files has been entered every entry is classified.
C1_EntriesPartitioned ==
    listed =>
        /\ Len(listing) = Cardinality(DOMAIN folder)
        /\ \A f \in DOMAIN folder : Count(listing, f) = 1
        /\ \A k \in DOMAIN listing :
               Count(AcceptedNames, listing[k]) + Count(RejectedNames, listing[k])
                   = IF k < idx THEN 1 ELSE 0
        /\ Len(allfiles) + Len(excluded_files) = idx - 1
        /\ AfterListFiles => idx = Len(listing) + 1

\* C1 witness: list_files has returned from a folder it both accepted from
\* and rejected from.
C1_MixedFolderListed ==
    /\ pc = "generate"
    /\ Len(allfiles) >= 1
    /\ \E k \in DOMAIN excluded_files :
           excluded_files[k][2] = "is not a valid image"

\* C4: an entry the loop has passed is rejected as excluded exactly when
\* its lowercased name starts with the lowercased form of some configured
\* prefix, whatever the case the prefix was typed in.
C4_ExclusionIgnoresCaseOnBothSides ==
    listed =>
        \A k \in DOMAIN listing :
            k < idx =>
                ( (\E r \in DOMAIN excluded_files :
                       excluded_files[r] = <<listing[k], "is in excluded list">>)
                  <=>
                  (\E j \in DOMAIN arguments.excluded :
                       StartsWith(Lower(listing[k]), Lower(arguments.excluded[j]))) )

\* C5: when anything at all exists at the resolved output path (a regular
\* file or not) and the folder argument is a directory, the run ends with
\* FileExistsError in parse_arguments: the folder is never listed, no
\* entry is opened and nothing is written.
C5_ExistingOutputFailsFirst ==
    (outKind # "absent" /\ folderIsDir) =>
        /\ ~listed
        /\ opened = {}
        /\ ~written
        /\ pc # "parse" => (pc = "failed" /\ error = "FileExistsError")

\* C6: once list_files has returned an empty list the run never saves a
\* document and never reaches quit(0); if it has ended, it ended with the
\* IndexError of generated_images[0].
C6_EmptyRunFails ==
    (AfterListFiles /\ Len(allfiles) = 0) =>
        /\ pc \notin {"saved", "exit0"}
        /\ ~written
        /\ pc = "failed" => error = "IndexError"

\* C6 witness: a folder whose every entry was rejected, and the run ended
\* by the IndexError.
C6_AllRejectedRunFailed ==
    /\ pc = "failed"
    /\ error = "IndexError"
    /\ Len(listing) > 0
    /\ Len(excluded_files) = Len(listing)
    /\ Len(allfiles) = 0

\* C8 as stated: every accepted image is exactly 2.5 * dpi wide and
\* 3.5 * dpi high.
C8_ExactHalfSizes ==
    \A k \in DOMAIN allfiles :
        /\ 2 * allfiles[k].size[1] = 5 * arguments.dpi
        /\ 2 * allfiles[k].size[2] = 7 * arguments.dpi

\* C8 as amended: every accepted image, whatever its size on disk, is
\* 2.5 * dpi by 3.5 * dpi truncated to whole pixels: exact for an even dpi,
\* half a pixel short in each dimension for an odd dpi.
C8_TruncatedSizes ==
    \A k \in DOMAIN allfiles :
        LET w == allfiles[k].size[1]
            h == allfiles[k].size[2]
            d == arguments.dpi
        IN  /\ 2 * w = 5 * d - (d % 2)
            /\ 2 * h = 7 * d - (d % 2)

\* C8 witness: two images of different sizes on disk accepted at an odd dpi.
C8_TwoSizesAcceptedOddDpi ==
    /\ pc = "generate"
    /\ arguments.dpi % 2 = 1
    /\ Len(allfiles) = 2
    /\ allfiles[1].src # allfiles[2].src

\* C2: every image the paste loop has passed is pasted exactly once, none
\* it has not reached is pasted; the image with index n is on page n div 9
\* at (X[(n mod 9) mod 3], Y[(n mod 9) div 3]); no two pastes share a page
\* and a cell; and i mod 3 is (i mod 9) mod 3 for every index.
C2_OnePasteOneCell ==
    AfterBackgrounds =>
        /\ \A n \in 0..(Len(allfiles) - 1) :
               Cardinality({s \in Slots : PasteAt(s).index = n})
                   = IF n < i THEN 1 ELSE 0
        /\ \A s \in Slots :
               LET n == PasteAt(s).index
                   col == (n % 9) % 3
                   row == (n % 9) \div 3
               IN  /\ s[1] - 1 = n \div 9
                   /\ PasteAt(s).image = allfiles[n + 1]
                   /\ PasteAt(s).x = xcords[col + 1]
                   /\ PasteAt(s).y = ycords[row + 1]
                   /\ ColOf(n) = col
        /\ \A s, t \in Slots :
               (s # t /\ s[1] = t[1]) =>
                   <<PasteAt(s).x, PasteAt(s).y>> # <<PasteAt(t).x, PasteAt(t).y>>
        /\ xcords[1] < xcords[2] /\ xcords[2] < xcords[3]
        /\ ycords[1] < ycords[2] /\ ycords[2] < ycords[3]

\* C2 witness: the loop has finished over more than one page of images.
C2_SeveralPagesPasted ==
    /\ pc = "save"
    /\ Len(allfiles) > 9
    /\ i = Len(allfiles)

\* C3: from before the first paste on there are ceil(n / 9) pages (the
\* least count whose cells hold n images: 0 for none, 1 for 1..9, 3 for
\* 20), all blank while nothing is pasted, and when the loop is over every
\* page holds at least one image.
C3_PageCountIsCeiling ==
    AfterBackgrounds =>
        LET n == Len(allfiles)
            pages == Len(backgrounds)
        IN  /\ 9 * pages >= n
            /\ 9 * (pages - 1) < n
            /\ n = 0 => pages = 0
            /\ n \in 1..9 => pages = 1
            /\ n = 20 => pages = 3
            /\ i = 0 => \A p \in DOMAIN backgrounds : backgrounds[p].pastes = << >>
            /\ pc = "save" =>
                   \A p \in DOMAIN backgrounds : Len(backgrounds[p].pastes) >= 1

\* C3 witness: 20 images pasted onto 3 pages.
C3_TwentyImagesThreePages ==
    /\ pc = "save"
    /\ Len(allfiles) = 20
    /\ Len(backgrounds) = 3
    /\ Len(backgrounds[3].pastes) = 2

\* The scenario of C7: two accepted images, dpi 100, generate_images done.
C7_Scenario ==
    /\ pc = "save"
    /\ arguments.dpi = 100
    /\ Len(allfiles) = 2

\* C7 as stated: one page, the first image at (50, 25), the second at
\* (320, 25).
C7_SecondImageAt320 ==
    C7_Scenario =>
        /\ Len(backgrounds) = 1
        /\ Len(backgrounds[1].pastes) = 2
        /\ LET a == backgrounds[1].pastes[1]
               c == backgrounds[1].pastes[2]
           IN  /\ <<a.index, a.x, a.y>> = <<0, 50, 25>>
               /\ <<c.index, c.x, c.y>> = <<1, 320, 25>>

\* C7 as amended: one page, the first image at (50, 25), the second at
\* (301, 25) = (3 * 100 + round(0.01 * 100), int(0.25 * 100)).
C7_SecondImageAt301 ==
    C7_Scenario =>
        /\ Len(backgrounds) = 1
        /\ Len(backgrounds[1].pastes) = 2
        /\ LET a == backgrounds[1].pastes[1]
               c == backgrounds[1].pastes[2]
           IN  /\ <<a.index, a.x, a.y>> = <<0, 50, 25>>
               /\ a.image = allfiles[1]
               /\ <<c.index, c.x, c.y>> = <<1, 301, 25>>
               /\ c.image = allfiles[2]

\* C7 witness: the scenario's final state, with both images pasted.
C7_ScenarioReached ==
    /\ C7_Scenario
    /\ Len(backgrounds) = 1
    /\ Len(backgrounds[1].pastes) = 2

\* C9: adjacent columns are at least an image width apart and adjacent
\* rows at least an image height apart, so the rectangles of two images
\* pasted on the same page never share a pixel.
C9_NoOverlap ==
    AfterBackgrounds =>
        LET w == (5 * arguments.dpi) \div 2
            h == (7 * arguments.dpi) \div 2
        IN  /\ xcords[2] - xcords[1] >= w
            /\ xcords[3] - xcords[2] >= w
            /\ ycords[2] - ycords[1] >= h
            /\ ycords[3] - ycords[2] >= h
            /\ \A k \in DOMAIN allfiles : allfiles[k].size = <<w, h>>
            /\ \A s, t \in Slots :
                   (s # t /\ s[1] = t[1]) =>
                       LET a == PasteAt(s)
                           b == PasteAt(t)
                       IN  \/ a.x + a.image.size[1] <= b.x
                           \/ b.x + b.image.size[1] <= a.x
                           \/ a.y + a.image.size[2] <= b.y
                           \/ b.y + b.image.size[2] <= a.y

\* C9 witness: a full page pasted at a dpi where round() meets a half.
C9_FullPageAtHalfwayDpi ==
    /\ pc = "save"
    /\ arguments.dpi = 150
    /\ Len(backgrounds) >= 1
    /\ Len(backgrounds[1].pastes) = 9

\* C10: every cell's image rectangle lies inside the page, and so does
\* every image pasted.
C10_InsidePage ==
    AfterBackgrounds =>
        LET d == arguments.dpi
            w == (5 * d) \div 2
            h == (7 * d) \div 2
        IN  /\ \A c \in 1..3 : 0 <= xcords[c] /\ xcords[c] + w <= (17 * d) \div 2
            /\ \A r \in 1..3 : 0 <= ycords[r] /\ ycords[r] + h <= 11 * d
            /\ \A s \in Slots :
                   LET a == PasteAt(s)
                       page == backgrounds[s[1]]
                   IN  /\ 0 <= a.x /\ a.x + a.image.size[1] <= page.size[1]
                       /\ 0 <= a.y /\ a.y + a.image.size[2] <= page.size[2]

\* C10 witness: a full page pasted at dpi 1, where the margins are thinnest.
C10_FullPageAtDpiOne ==
    /\ pc = "save"
    /\ arguments.dpi = 1
    /\ Len(backgrounds) >= 1
    /\ Len(backgrounds[1].pastes) = 9

====
